---- MODULE Spec2Model ----
(***************************************************************************)
(* Library management application: the Streamlit pages of app.py (Add     *)
(* Book, Add Member, Borrow Book, Return Book) running in concurrent UI   *)
(* sessions against one MySQL database through the process-wide          *)
(* connection pool of db_connection.py.                                   *)
(*                                                                         *)
(* One action is one call of app.execute_query: connection acquisition,   *)
(* one SQL statement, commit and close.  A statement is atomic in the     *)
(* database; the statements of one script run are separate transactions,  *)
(* so the steps of different sessions interleave between them.            *)
(*                                                                         *)
(* A script run is modelled from the click that starts it.  Page renders  *)
(* without a click (and the st.rerun() after a return) issue SELECTs only *)
(* and write no table; they are left out.                                 *)
(*                                                                         *)
(* Two components are specified on their own: the Dashboard page's        *)
(* get_dashboard_stats on a database at rest (SpecDash), and              *)
(* DatabaseManager.execute_query with get_connection_context and          *)
(* get_connection, the path of db_connection.py's own callers (SpecDm).   *)
(***************************************************************************)
EXTENDS Integers, Sequences, FiniteSets, TLC

\* ------------------------------------------------------------------ bounds
\* Script runs (button clicks) started over all sessions.
MaxOps == 3
\* Environment faults (lost connection, dead pooled connection, lock
\* timeout) injected over a whole run.
MaxFaults == 1
\* Databases the dashboard is computed on: rows of Books, copies of a book,
\* rows of Borrowing.
MaxBooks == 2
MaxCopies == 2
MaxLoans == 2

\* -------------------------------------------------------- program constants
\* pool_config['pool_size']
PoolSize == 10
\* get_connection: max_retries
max_retries == 3
\* get_connection: retry_delay, in seconds
retry_delay_0 == 1

Sessions == {"s1", "s2"}

\* SQL NULL / Python None, and the one value CURRENT_DATE takes in a run.
NULL == "NULL"
Today == "today"
\* A date before CURRENT_DATE.
Yesterday == "yesterday"

\* ------------------------------------------------------------------ inputs
Titles == {"1984", "Emma"}
Authors == {"Orwell"}
\* "Available Copies" values typed into the Add Book form (min_value=1).
CopyChoices == {1}
\* The empty string is what an untouched text_input holds.
BookInputs ==
    { [Title |-> t, Author |-> a, Copies |-> c] :
        t \in Titles \cup {""}, a \in Authors, c \in CopyChoices }

\* E-mail addresses are character sequences, so that the handler's
\* "@" in email / "." in email tests are computed.
EmAnn == <<"a", "@", ".">>
EmAnnUpper == <<"A", "@", ".">>
EmBob == <<"b", "@", ".">>
EmNoAt == <<"a", ".">>
EmNoDot == <<"a", "@">>
MemberInputs ==
    { [Name |-> "Ann", Email |-> EmAnn],
      [Name |-> "Bob", Email |-> EmBob],
      [Name |-> "Bob", Email |-> EmAnnUpper],
      [Name |-> "Ann", Email |-> EmNoAt],
      [Name |-> "Ann", Email |-> EmNoDot],
      [Name |-> "", Email |-> EmAnn],
      [Name |-> "Ann", Email |-> << >>] }

\* ------------------------------------------------------------------- state
VARIABLES
    Books,      \* table Books: row i has BookID i
    Members,    \* table Members: row i has MemberID i
    Borrowing,  \* table Borrowing: row i has BorrowID i
    pool_free,  \* connections queued in db_manager.connection_pool
    ses,        \* per UI session: position in the script run and its locals
    shown,      \* what the script run that finished in the latest step reported
    ops,        \* script runs started so far
    faults,     \* environment faults injected so far
    credits,    \* history: per BorrowID, copy increments applied for it
    pre,        \* history: the tables when the latest script run began
    stock,      \* history: per BookID, the copy count the book was added with
    dash,       \* the Dashboard page: position in get_dashboard_stats, its stats
    dm,         \* a caller of DatabaseManager.execute_query: position, connection
    trip        \* history: the latest Borrow and the Return that follows it

vars ==
    <<Books, Members, Borrowing, pool_free, ses, shown, ops, faults, credits, pre,
      stock, trip, dash, dm>>

NoSnap == [Books |-> << >>, Members |-> << >>, Borrowing |-> << >>]
NoTrip == [stage |-> "none", rec |-> 0, book |-> 0, before |-> 0]

\* A session between script runs: the locals of a run do not outlive it.
IdleSession ==
    [pc |-> "done", op |-> "none",
     title |-> "", author |-> "", copies |-> 0,
     member_id |-> 0, book_id |-> 0, borrow_id |-> 0, book_info |-> 0,
     email |-> << >>, check_failed |-> FALSE, w1 |-> FALSE]

\* The report of a finished run: the page (op), the message it showed
\* (msg), the outcome of its last execute_query (res), the ids and the
\* e-mail it worked on, whether its precondition query raised
\* (check_failed), and whether its first and second write were applied
\* (w1, w2).
Report(r, msg, res, w2) ==
    [op |-> r.op, msg |-> msg, res |-> res,
     member_id |-> r.member_id, book_id |-> r.book_id, borrow_id |-> r.borrow_id,
     email |-> r.email, check_failed |-> r.check_failed,
     w1 |-> r.w1, w2 |-> w2]

NoReport == Report(IdleSession, "none", "none", FALSE)

Snapshot == [Books |-> Books, Members |-> Members, Borrowing |-> Borrowing]

\* ------------------------------------------------------------ pure helpers
Contains(seq, ch) == \E i \in 1..Len(seq) : seq[i] = ch

\* Mutant: the handler testing for "@" alone.
EmailPlausible_AtOnly(email) == Contains(email, "@")

\* Handler test: "@" not in email or "." not in email  ->  invalid.
EmailPlausible(email) == Contains(email, "@") /\ Contains(email, ".")

\* utf8mb4_unicode_ci: the collation of every VARCHAR column compares
\* letters without regard to case.
Lower(ch) == IF ch = "A" THEN "a" ELSE IF ch = "B" THEN "b" ELSE ch
Fold(seq) == [i \in 1..Len(seq) |-> Lower(seq[i])]

\* Mutant: the Members table without its UNIQUE key on Email.
MembersInsertError_NoUniqueKey(email) == FALSE

\* Members.Email is UNIQUE: an INSERT of an e-mail that collates equal to a
\* stored one raises IntegrityError.
MembersInsertError(email) ==
    \E m \in 1..Len(Members) : Fold(Members[m].Email) = Fold(email)

\* Books has no unique key over (Title, Author); ISBN (UNIQUE) is left NULL
\* by the Add Book form, and NULLs never collide: the INSERT never raises.
BooksInsertError(title, author) == FALSE

\* Borrowing has foreign keys only; the rows they name are never deleted.
BorrowingInsertError(member, book) ==
    ~(member \in 1..Len(Members) /\ book \in 1..Len(Books))

\* d1 < d2 on DATE values; a comparison with NULL is not true.
DateBefore(d1, d2) == d1 = Yesterday /\ d2 = Today

\* Borrowing.Status, the generated column of the schema.
Status(row) ==
    IF row.ReturnDate # NULL THEN "Returned"
    ELSE IF DateBefore(row.DueDate, Today) THEN "Overdue"
    ELSE "Borrowed"

\* SELECT BookID FROM Books WHERE Title = %s AND Author = %s
SelectExistingBook(title, author) ==
    { b \in 1..Len(Books) : Books[b].Title = title /\ Books[b].Author = author }

\* SELECT MemberID, Name FROM Members ORDER BY Name
SelectMembers == 1..Len(Members)

\* SELECT ... FROM Books WHERE AvailableCopies > 0 ORDER BY Title
SelectAvailableBooks == { b \in 1..Len(Books) : Books[b].AvailableCopies > 0 }

\* SELECT BorrowID FROM Borrowing WHERE MemberID = %s AND BookID = %s
\*   AND ReturnDate IS NULL
SelectExistingBorrow(member, book) ==
    { r \in 1..Len(Borrowing) :
        /\ Borrowing[r].MemberID = member
        /\ Borrowing[r].BookID = book
        /\ Borrowing[r].ReturnDate = NULL }

\* SELECT ... FROM Borrowing b JOIN Members m JOIN Books bk
\*   WHERE b.ReturnDate IS NULL ORDER BY b.BorrowDate
\* (the inner joins drop nothing: the foreign keys always resolve).
SelectBorrowedBooks == { r \in 1..Len(Borrowing) : Borrowing[r].ReturnDate = NULL }

\* ------------------------------------------------- connection acquisition
\* DatabaseManager.get_connection: the outcomes of the retry loop from
\* attempt `attempt` on, with `free` connections queued and `retry_delay`
\* the next sleep.  The environment may still inject `budget` faults: a
\* dead pooled connection is one fault, and so is an outage of the server,
\* during which every reconnect of this call may fail (down: an earlier
\* attempt of this call met the outage).
\*   ok        a connection is returned; it is checked out, and free counts
\*             the queue without it.  Otherwise an Error is raised.
\*   used      faults injected
\*   attempts  iterations of the loop that ran
\*   slept     the time.sleep() calls made, in order
RECURSIVE get_connection(_, _, _, _, _)
get_connection(free, attempt, budget, down, retry_delay) ==
    IF attempt >= max_retries
    THEN { [ok |-> FALSE, free |-> free, used |-> 0,
            attempts |-> attempt, slept |-> << >>] }
    ELSE
      LET \* except Error: sleep and double the delay, unless this was the
          \* last attempt, which re-raises.
          Caught(f, b, d, cost) ==
            IF attempt < max_retries - 1
            THEN { [o EXCEPT !.used = @ + cost, !.slept = <<retry_delay>> \o @] :
                     o \in get_connection(f, attempt + 1, b, d, retry_delay * 2) }
            ELSE { [ok |-> FALSE, free |-> f, used |-> cost,
                    attempts |-> attempt + 1, slept |-> << >>] }
          \* pool.get_connection() raises PoolError on an empty queue.
          exhausted ==
            IF free = 0 THEN Caught(free, budget, down, 0) ELSE {}
          \* pool.get_connection() raises on a failed reconnect.
          raised ==
            IF free > 0 /\ down
            THEN Caught(free, budget, TRUE, 0)
            ELSE IF free > 0 /\ budget > 0
            THEN Caught(free, budget - 1, TRUE, 1)
            ELSE {}
          \* The pool hands out a connection and is_connected() holds.
          connected ==
            IF free > 0
            THEN { [ok |-> TRUE, free |-> free - 1, used |-> 0,
                    attempts |-> attempt + 1, slept |-> << >>] }
            ELSE {}
          \* is_connected() is false: the connection is dropped, neither
          \* returned nor closed, and the loop goes on without sleeping.
          dead ==
            IF free > 0 /\ budget > 0
            THEN { [o EXCEPT !.used = @ + 1] :
                     o \in get_connection(free - 1, attempt + 1, budget - 1, down,
                                          retry_delay) }
            ELSE {}
      IN exhausted \cup raised \cup connected \cup dead

\* app.get_connection / create_connection: any exception becomes None.
AppGetConnection ==
    get_connection(pool_free, 0, MaxFaults - faults, FALSE, retry_delay_0)

\* app.execute_query(query, params, ...): the possible outcomes of one call
\* whose statement violates a constraint iff stmtError.
\*   res  "ok"          statement ran, was committed (or fetched), and
\*                      cursor and connection were closed
\*        "conn_failed" no connection: returns None before any statement
\*        "integrity_error" / "db_error"
\*                      the statement raised (a constraint, or a fault of
\*                      the environment): the except branch returns None
\*                      and does not close the connection
\*   free the pool's queue afterwards
execute_query(stmtError) ==
    UNION { IF ~c.ok
            THEN { [res |-> "conn_failed", free |-> c.free, used |-> c.used] }
            ELSE IF stmtError
            THEN { [res |-> "integrity_error", free |-> c.free, used |-> c.used] }
            ELSE { [res |-> "ok", free |-> c.free + 1, used |-> c.used] }
                 \cup ( IF faults + c.used < MaxFaults
                        THEN { [res |-> "db_error", free |-> c.free, used |-> c.used + 1] }
                        ELSE {} )
          : c \in AppGetConnection }

\* app.execute_query(..., fetch=True, fetch_all=False) on a result of `rows`
\* rows: fetchone() reads one row.  With more rows left unread the driver
\* either discards them or cursor.close() raises "Unread result found",
\* depending on its build; the except branch then returns None as above.
execute_query_one(rows) ==
    execute_query(FALSE) \cup
    ( IF rows > 1
      THEN { [res |-> "unread_result", free |-> c.free, used |-> c.used] :
               c \in { x \in AppGetConnection : x.ok } }
      ELSE {} )

\* What every call of execute_query does to the pool and the fault budget.
Ran(o) ==
    /\ pool_free' = o.free
    /\ faults' = faults + o.used

\* No call of DatabaseManager.execute_query under way.
\*   fetch, bad  the call: fetch=True, and whether the statement violates a
\*               constraint
\*   acq         how get_connection ended
\*   held        `connection` of get_connection_context is set
\*   alive       what its is_connected() returns
\*   pending     writes of the connection's open transaction
\*   committed   writes committed by the calls so far
\*   stmt_failed cursor.execute or commit raised an Error
\*   raised      an Error is on its way to the caller
\*   free0       the pool's queue when the call began
DmIdle ==
    [pc |-> "idle", fetch |-> FALSE, bad |-> FALSE,
     acq |-> [ok |-> FALSE, attempts |-> 0, slept |-> << >>],
     held |-> FALSE, alive |-> FALSE, pending |-> 0, committed |-> 0,
     stmt_failed |-> FALSE, raised |-> FALSE, free0 |-> 0]

\* The Dashboard page before its first query.
DashStart ==
    [pc |-> "total_books", answered |-> TRUE,
     stats |-> [total_books |-> 0, total_members |-> 0,
                borrowed_books |-> 0, available_copies |-> 0]]

\* The application is started against the library database as it stands.
\* Init ranges over databases that Add Book and Add Member build from the
\* empty schema (create_sample_data seeds the tables the same way); every
\* loan is made by the modelled sessions.
SeedBooks ==
    { << >>,
      << [Title |-> "1984", Author |-> "Orwell", AvailableCopies |-> 2] >> }
SeedMembers ==
    { << >>,
      << [Name |-> "Ann", Email |-> EmAnn], [Name |-> "Bob", Email |-> EmBob] >> }

Init ==
    /\ Books \in SeedBooks
    /\ Members \in SeedMembers
    /\ Borrowing = << >>
    /\ pool_free = PoolSize
    /\ ses = [s \in Sessions |-> IdleSession]
    /\ shown = NoReport
    /\ ops = 0
    /\ faults = 0
    /\ credits = << >>
    /\ pre = NoSnap
    /\ stock = [b \in 1..Len(Books) |-> Books[b].AvailableCopies]
    /\ trip = NoTrip
    /\ dash = DashStart
    /\ dm = DmIdle

CanStart(s) == ses[s].pc = "done" /\ ops < MaxOps

\* The run of session s goes on with locals r: nothing is reported.
Goes(s, r) ==
    /\ ses' = [ses EXCEPT ![s] = r]
    /\ shown' = NoReport

\* The run of session s, with locals r, ends showing msg.
Ends(s, r, msg, res, w2) ==
    /\ ses' = [ses EXCEPT ![s] = IdleSession]
    /\ shown' = Report(r, msg, res, w2)

\* A fresh script run of page `op`.
NewRun(op) == [IdleSession EXCEPT !.pc = "run", !.op = op]

\* --------------------------------------------------------------- Add Book
\* Submit of the Add Book form: the required-field test, then the
\* duplicate SELECT.  A failed SELECT returns None like an empty result.
AddBookCheck(s) ==
    /\ CanStart(s)
    /\ ops' = ops + 1
    /\ trip' = NoTrip
    /\ pre' = Snapshot
    /\ UNCHANGED <<Books, Members, Borrowing, credits, stock, dash, dm>>
    /\ \E f \in BookInputs :
         LET run == [NewRun("AddBook") EXCEPT
                       !.title = f.Title, !.author = f.Author, !.copies = f.Copies]
         IN IF f.Title = "" \/ f.Author = ""
            THEN /\ Ends(s, NewRun("AddBook"), "missing", "none", FALSE)
                 /\ UNCHANGED <<pool_free, faults>>
            ELSE \E o \in execute_query_one(
                           Cardinality(SelectExistingBook(f.Title, f.Author))) :
                   LET existing_book ==
                         o.res = "ok" /\ SelectExistingBook(f.Title, f.Author) # {}
                   IN /\ Ran(o)
                      /\ IF existing_book
                         THEN Ends(s, NewRun("AddBook"), "duplicate", o.res, FALSE)
                         ELSE Goes(s, [run EXCEPT !.pc = "ab_insert",
                                                  !.check_failed = o.res # "ok"])

\* INSERT INTO Books (Title, Author, PublishedYear, AvailableCopies)
AddBookInsert(s) ==
    /\ ses[s].pc = "ab_insert"
    /\ UNCHANGED <<Members, Borrowing, credits, ops, pre, trip, dash, dm>>
    /\ \E o \in execute_query(BooksInsertError(ses[s].title, ses[s].author)) :
         LET ok == o.res = "ok"
         IN /\ Ran(o)
            /\ Books' = IF ok
                        THEN Append(Books, [Title |-> ses[s].title,
                                            Author |-> ses[s].author,
                                            AvailableCopies |-> ses[s].copies])
                        ELSE Books
            /\ stock' = IF ok THEN Append(stock, ses[s].copies) ELSE stock
            /\ Ends(s, [ses[s] EXCEPT !.w1 = ok],
                    IF ok THEN "success" ELSE "failed", o.res, FALSE)

\* ------------------------------------------------------------- Add Member
\* Submit of the Add Member form: required fields, the e-mail test, then
\* the one INSERT INTO Members (Name, Email, PhoneNumber).
AddMember(s) ==
    /\ CanStart(s)
    /\ ops' = ops + 1
    /\ trip' = NoTrip
    /\ pre' = Snapshot
    /\ UNCHANGED <<Books, Borrowing, credits, stock, dash, dm>>
    /\ \E f \in MemberInputs :
         LET run == [NewRun("AddMember") EXCEPT !.email = f.Email]
         IN
         IF f.Name = "" \/ f.Email = << >>
         THEN /\ Ends(s, NewRun("AddMember"), "missing", "none", FALSE)
              /\ UNCHANGED <<Members, pool_free, faults>>
         ELSE IF ~EmailPlausible(f.Email)
         THEN /\ Ends(s, run, "invalid_email", "none", FALSE)
              /\ UNCHANGED <<Members, pool_free, faults>>
         ELSE \E o \in execute_query(MembersInsertError(f.Email)) :
                LET ok == o.res = "ok"
                IN /\ Ran(o)
                   /\ Members' = IF ok
                                 THEN Append(Members, [Name |-> f.Name, Email |-> f.Email])
                                 ELSE Members
                   /\ Ends(s, [run EXCEPT !.w1 = ok],
                           IF ok THEN "success" ELSE "failed", o.res, FALSE)

\* ------------------------------------------------------------ Borrow Book
\* Mutant: the copy count left as it is.
CopiesAfterBorrow_Unchanged(c) == c

\* UPDATE Books SET AvailableCopies = AvailableCopies - 1
CopiesAfterBorrow(c) == c - 1

\* Mutant: success reported once the record is inserted.
BorrowReport_InsertOnly(insertOk, updateOk) ==
    IF insertOk THEN "success" ELSE "failed"

\* What the Borrow page reports after its two writes.
BorrowReport(insertOk, updateOk) ==
    IF insertOk /\ updateOk THEN "success" ELSE "failed"

\* Mutant: the INSERT also setting a DueDate, one that has passed.
NewBorrowing_DueYesterday(member, book) ==
    [MemberID |-> member, BookID |-> book,
     BorrowDate |-> Today, DueDate |-> Yesterday, ReturnDate |-> NULL]

\* INSERT INTO Borrowing (MemberID, BookID, BorrowDate)
\*   VALUES (%s, %s, CURRENT_DATE): the columns left out take their
\* default, NULL for DueDate and ReturnDate.
NewBorrowing(member, book) ==
    [MemberID |-> member, BookID |-> book,
     BorrowDate |-> Today, DueDate |-> NULL, ReturnDate |-> NULL]

\* The script run of a click on "Borrow Book" starts by filling the member
\* selectbox.  No rows, or a failed SELECT, leave member_id None; otherwise
\* the selection is any listed member.
BorrowMembers(s) ==
    /\ CanStart(s)
    /\ ops' = ops + 1
    /\ trip' = NoTrip
    /\ pre' = Snapshot
    /\ UNCHANGED <<Books, Members, Borrowing, credits, stock, dash, dm>>
    /\ \E o \in execute_query(FALSE) :
         LET members == IF o.res = "ok" THEN SelectMembers ELSE {}
         IN /\ Ran(o)
            /\ \E m \in (IF members = {} THEN {0} ELSE members) :
                 Goes(s, [NewRun("Borrow") EXCEPT !.pc = "bw_books", !.member_id = m])

\* The book selectbox lists the books with AvailableCopies > 0; then the
\* button test: both ids are needed to go on.
BorrowBooks(s) ==
    /\ ses[s].pc = "bw_books"
    /\ UNCHANGED <<Books, Members, Borrowing, credits, ops, pre, trip, stock, dash, dm>>
    /\ \E o \in execute_query(FALSE) :
         LET books == IF o.res = "ok" THEN SelectAvailableBooks ELSE {}
         IN /\ Ran(o)
            /\ \E b \in (IF books = {} THEN {0} ELSE books) :
                 LET run == [ses[s] EXCEPT !.book_id = b]
                 IN IF ses[s].member_id # 0 /\ b # 0
                    THEN Goes(s, [run EXCEPT !.pc = "bw_check"])
                    ELSE Ends(s, run, "select_both", o.res, FALSE)

\* "Check if member already has this book": a failed SELECT returns None
\* like an empty result.
BorrowCheck(s) ==
    /\ ses[s].pc = "bw_check"
    /\ UNCHANGED <<Books, Members, Borrowing, credits, ops, pre, trip, stock, dash, dm>>
    /\ \E o \in execute_query_one(
                 Cardinality(SelectExistingBorrow(ses[s].member_id, ses[s].book_id))) :
         LET existing_borrow ==
               o.res = "ok" /\ SelectExistingBorrow(ses[s].member_id, ses[s].book_id) # {}
         IN /\ Ran(o)
            /\ IF existing_borrow
               THEN Ends(s, ses[s], "already_borrowed", o.res, FALSE)
               ELSE Goes(s, [ses[s] EXCEPT !.pc = "bw_insert",
                                           !.check_failed = o.res # "ok"])

\* INSERT INTO Borrowing (MemberID, BookID, BorrowDate)
\*   VALUES (%s, %s, CURRENT_DATE)
BorrowInsert(s) ==
    /\ ses[s].pc = "bw_insert"
    /\ UNCHANGED <<Books, Members, ops, pre, trip, stock, dash, dm>>
    /\ \E o \in execute_query(BorrowingInsertError(ses[s].member_id, ses[s].book_id)) :
         LET ok == o.res = "ok"
         IN /\ Ran(o)
            /\ Borrowing' = IF ok
                            THEN Append(Borrowing,
                                        NewBorrowing(ses[s].member_id, ses[s].book_id))
                            ELSE Borrowing
            /\ credits' = IF ok THEN Append(credits, 0) ELSE credits
            /\ IF ok
               THEN Goes(s, [ses[s] EXCEPT !.pc = "bw_update", !.w1 = TRUE,
                                           !.borrow_id = Len(Borrowing) + 1])
               ELSE Ends(s, ses[s], BorrowReport(FALSE, FALSE), o.res, FALSE)

\* UPDATE Books SET AvailableCopies = AvailableCopies - 1 WHERE BookID = %s
BorrowUpdate(s) ==
    /\ ses[s].pc = "bw_update"
    /\ UNCHANGED <<Members, Borrowing, credits, ops, pre, stock, dash, dm>>
    /\ \E o \in execute_query(FALSE) :
         LET ok == o.res = "ok"
             b == ses[s].book_id
         IN /\ Ran(o)
            /\ Books' = IF ok
                        THEN [Books EXCEPT ![b].AvailableCopies = CopiesAfterBorrow(@)]
                        ELSE Books
            /\ Ends(s, ses[s], BorrowReport(TRUE, ok), o.res, ok)
            /\ trip' = IF ok
                       THEN [stage |-> "borrowed", rec |-> ses[s].borrow_id, book |-> b,
                             before |-> IF b \in DOMAIN pre.Books
                                        THEN pre.Books[b].AvailableCopies
                                        ELSE 0]
                       ELSE NoTrip

\* ------------------------------------------------------------ Return Book
\* Mutant: the copy count left as it is.
CopiesAfterReturn_Unchanged(c) == c

\* UPDATE Books SET AvailableCopies = AvailableCopies + 1
CopiesAfterReturn(c) == c + 1

\* Mutant: the update clearing a ReturnDate that is already set.
SetReturnDate_Toggle(row) ==
    [row EXCEPT !.ReturnDate = IF @ = NULL THEN Today ELSE NULL]

\* UPDATE Borrowing SET ReturnDate = CURRENT_DATE, on the row it matches.
SetReturnDate(row) == [row EXCEPT !.ReturnDate = Today]

\* What the Return page reports: book_info and the record update are one
\* short-circuit test, the copy update the inner one.
ReturnReport(recordOk, updateOk) ==
    IF recordOk /\ updateOk THEN "success" ELSE "failed"

\* The Return page lists the open records; no rows, or a failed SELECT,
\* show "No books are currently borrowed".  The selectbox maps a label
\* (title, member, days) to a BorrowID; records with equal labels are
\* ordered by BorrowDate alone, so each of them can be the one selected.
ReturnList(s) ==
    /\ CanStart(s)
    /\ ops' = ops + 1
    /\ pre' = Snapshot
    /\ UNCHANGED <<Books, Members, Borrowing, credits, stock, dash, dm>>
    /\ \E o \in execute_query(FALSE) :
         LET borrowed_books == IF o.res = "ok" THEN SelectBorrowedBooks ELSE {}
         IN /\ Ran(o)
            /\ IF borrowed_books = {}
               THEN /\ Ends(s, NewRun("Return"), "none_borrowed", o.res, FALSE)
                    /\ trip' = NoTrip
               ELSE \E r \in borrowed_books :
                      /\ Goes(s, [NewRun("Return") EXCEPT !.pc = "rt_info", !.borrow_id = r])
                      /\ trip' = IF trip.stage = "borrowed" /\ trip.rec = r
                                 THEN [trip EXCEPT !.stage = "returning"]
                                 ELSE NoTrip

\* SELECT BookID FROM Borrowing WHERE BorrowID = %s.  Without book_info the
\* record update is not attempted.
ReturnInfo(s) ==
    /\ ses[s].pc = "rt_info"
    /\ UNCHANGED <<Books, Members, Borrowing, credits, ops, pre, stock, dash, dm>>
    /\ \E o \in execute_query(FALSE) :
         LET ok == o.res = "ok"
         IN /\ Ran(o)
            /\ IF ok
               THEN Goes(s, [ses[s] EXCEPT
                               !.pc = "rt_record",
                               !.book_info = Borrowing[ses[s].borrow_id].BookID])
               ELSE Ends(s, ses[s], ReturnReport(FALSE, FALSE), o.res, FALSE)
            /\ trip' = IF ok THEN trip ELSE NoTrip

\* UPDATE Borrowing SET ReturnDate = CURRENT_DATE WHERE BorrowID = %s
ReturnRecord(s) ==
    /\ ses[s].pc = "rt_record"
    /\ UNCHANGED <<Books, Members, credits, ops, pre, stock, dash, dm>>
    /\ \E o \in execute_query(FALSE) :
         LET ok == o.res = "ok"
         IN /\ Ran(o)
            /\ Borrowing' = IF ok
                            THEN [Borrowing EXCEPT ![ses[s].borrow_id] = SetReturnDate(@)]
                            ELSE Borrowing
            /\ IF ok
               THEN Goes(s, [ses[s] EXCEPT !.pc = "rt_update", !.w1 = TRUE])
               ELSE Ends(s, ses[s], ReturnReport(FALSE, FALSE), o.res, FALSE)
            /\ trip' = IF ok THEN trip ELSE NoTrip

\* UPDATE Books SET AvailableCopies = AvailableCopies + 1 WHERE BookID = %s
ReturnUpdate(s) ==
    /\ ses[s].pc = "rt_update"
    /\ UNCHANGED <<Members, Borrowing, ops, pre, stock, dash, dm>>
    /\ \E o \in execute_query(FALSE) :
         LET ok == o.res = "ok"
             b == ses[s].book_info
             r == ses[s].borrow_id
         IN /\ Ran(o)
            /\ Books' = IF ok
                        THEN [Books EXCEPT ![b].AvailableCopies = CopiesAfterReturn(@)]
                        ELSE Books
            /\ credits' = IF ok THEN [credits EXCEPT ![r] = @ + 1] ELSE credits
            /\ Ends(s, [ses[s] EXCEPT !.book_id = b], ReturnReport(TRUE, ok), o.res, ok)
            /\ trip' = IF ok /\ trip.stage = "returning" /\ trip.rec = r
                       THEN [trip EXCEPT !.stage = "returned"]
                       ELSE NoTrip

\* -------------------------------------------------------------- Dashboard
\* A numeric SQL value: << >> is NULL, <<n>> the number n.  A fetchone()
\* result: << >> is None, <<row>> the row dictionary.
RECURSIVE SumCopies(_)
SumCopies(books) ==
    IF books = << >> THEN 0
    ELSE Head(books).AvailableCopies + SumCopies(Tail(books))

\* SELECT COUNT(*) as count FROM Books / FROM Members
CountRows(table) == << [count |-> <<Len(table)>>] >>

\* Mutant: the count without its WHERE clause.
CountBorrowed_AllRows ==
    << [count |-> <<Len(Borrowing)>>] >>

\* SELECT COUNT(*) as count FROM Borrowing WHERE ReturnDate IS NULL
CountBorrowed ==
    << [count |-> <<Cardinality(SelectBorrowedBooks)>>] >>

\* SELECT SUM(AvailableCopies) as count FROM Books: NULL over no rows.
SumAvailableCopies ==
    << [count |-> IF Books = << >> THEN << >> ELSE <<SumCopies(Books)>>] >>

\* result['count'] if result else 0
CountStat(result) ==
    IF result # << >> THEN Head(result).count[1] ELSE 0

\* int(result['count']) if result and result['count'] is not None else 0
CopiesStat(result) ==
    IF result # << >> /\ Head(result).count # << >>
    THEN Head(result).count[1]
    ELSE 0

\* What execute_query(..., fetch=True, fetch_all=False) hands back.
Fetched(o, rows) == IF o.res = "ok" THEN rows ELSE << >>

\* One query of get_dashboard_stats, with outcome o: stats[pc] is set to
\* value and the function goes on with the next query whether this one
\* failed or not.
DashQuery(pc, next, o, value) ==
    /\ dash.pc = pc
    /\ UNCHANGED <<Books, Members, Borrowing, ses, shown, ops, credits, pre, stock, trip, dm>>
    /\ Ran(o)
    /\ dash' = [pc |-> next,
                answered |-> dash.answered /\ o.res = "ok",
                stats |-> [dash.stats EXCEPT ![pc] = value]]

DashTotalBooks ==
    \E o \in execute_query_one(1) :
        DashQuery("total_books", "total_members", o,
                  CountStat(Fetched(o, CountRows(Books))))

DashTotalMembers ==
    \E o \in execute_query_one(1) :
        DashQuery("total_members", "borrowed_books", o,
                  CountStat(Fetched(o, CountRows(Members))))

DashBorrowedBooks ==
    \E o \in execute_query_one(1) :
        DashQuery("borrowed_books", "available_copies", o,
                  CountStat(Fetched(o, CountBorrowed)))

DashAvailableCopies ==
    \E o \in execute_query_one(1) :
        DashQuery("available_copies", "returned", o,
                  CopiesStat(Fetched(o, SumAvailableCopies)))

\* -------------------------------------------------------- DatabaseManager
\* DatabaseManager.execute_query(query, params, fetch) through
\* get_connection_context, one step per statement of the two functions.
appvars == <<Books, Members, Borrowing, ses, shown, credits, pre, stock, trip, dash>>

\* get_connection_context: connection = self.get_connection().  An Error
\* goes to the except clause with connection still None.
DmGetConnection ==
    /\ dm.pc \in {"idle", "done"}
    /\ ops < MaxOps
    /\ ops' = ops + 1
    /\ UNCHANGED appvars
    /\ \E fetch \in BOOLEAN, bad \in BOOLEAN :
       \E o \in get_connection(pool_free, 0, MaxFaults - faults, FALSE, retry_delay_0) :
         /\ Ran(o)
         /\ dm' = [DmIdle EXCEPT
                     !.pc = IF o.ok THEN "execute" ELSE "except",
                     !.fetch = fetch, !.bad = bad,
                     !.acq = [ok |-> o.ok, attempts |-> o.attempts, slept |-> o.slept],
                     !.held = o.ok, !.alive = o.ok,
                     !.committed = dm.committed,
                     !.raised = ~o.ok,
                     !.free0 = pool_free]

\* An Error raised by cursor.execute or connection.commit: a constraint or
\* a lock timeout leaves the connection up; a lost connection ends it, and
\* the server discards its open transaction.
DmError(lost) ==
    [dm EXCEPT !.pc = "except", !.stmt_failed = TRUE, !.raised = TRUE,
               !.alive = ~lost,
               !.pending = IF lost THEN 0 ELSE @]

\* execute_query: cursor.execute(query, params), then the fetch and return
\* or, for a write, on to the commit.
DmExecute ==
    /\ dm.pc = "execute"
    /\ UNCHANGED <<appvars, pool_free, ops>>
    /\ \/ /\ dm.bad
          /\ dm' = DmError(FALSE)
          /\ UNCHANGED faults
       \/ /\ ~dm.bad
          /\ dm' = IF dm.fetch
                    THEN [dm EXCEPT !.pc = "finally"]
                    ELSE [dm EXCEPT !.pc = "commit", !.pending = 1]
          /\ UNCHANGED faults
       \/ /\ faults < MaxFaults
          /\ faults' = faults + 1
          /\ \E lost \in BOOLEAN : dm' = DmError(lost)

\* execute_query: connection.commit(), return cursor.rowcount.
DmCommit ==
    /\ dm.pc = "commit"
    /\ UNCHANGED <<appvars, pool_free, ops>>
    /\ \/ /\ dm' = [dm EXCEPT !.pc = "finally", !.pending = 0,
                                !.committed = @ + dm.pending]
          /\ UNCHANGED faults
       \/ /\ faults < MaxFaults
          /\ faults' = faults + 1
          /\ \E lost \in BOOLEAN : dm' = DmError(lost)

\* get_connection_context, except Error: if connection: rollback(); raise.
\* On a lost connection rollback() raises in its turn; the finally clause
\* runs either way.
DmExcept ==
    /\ dm.pc = "except"
    /\ UNCHANGED <<appvars, pool_free, ops, faults>>
    /\ dm' = [dm EXCEPT !.pc = "finally",
                        !.pending = IF dm.held /\ dm.alive THEN 0 ELSE @]

\* get_connection_context, finally:
\*   if connection and connection.is_connected(): connection.close()
\* close() puts a pooled connection back in the queue.
DmFinally ==
    /\ dm.pc = "finally"
    /\ UNCHANGED <<appvars, ops, faults>>
    /\ IF dm.held /\ dm.alive
       THEN /\ pool_free' = pool_free + 1
            /\ dm' = [dm EXCEPT !.pc = "done", !.held = FALSE, !.pending = 0]
       ELSE /\ pool_free' = pool_free
            /\ dm' = [dm EXCEPT !.pc = "done"]

\* ---------------------------------------------------------- specification
Step(s) ==
    \/ AddBookCheck(s)
    \/ AddBookInsert(s)
    \/ AddMember(s)
    \/ BorrowMembers(s)
    \/ BorrowBooks(s)
    \/ BorrowCheck(s)
    \/ BorrowInsert(s)
    \/ BorrowUpdate(s)
    \/ ReturnList(s)
    \/ ReturnInfo(s)
    \/ ReturnRecord(s)
    \/ ReturnUpdate(s)

\* Concurrent UI sessions: the statements of their script runs interleave.
Next == \E s \in Sessions : Step(s)

Spec == Init /\ [][Next]_vars

\* One request at a time: a session takes a step only when no other
\* session is in the middle of a script run.
Solo(s) == \A t \in Sessions \ {s} : ses[t].pc = "done"

NextSeq ==
    \E s \in Sessions :
        \/ Solo(s) /\ AddBookCheck(s)
        \/ Solo(s) /\ AddBookInsert(s)
        \/ Solo(s) /\ AddMember(s)
        \/ Solo(s) /\ BorrowMembers(s)
        \/ Solo(s) /\ BorrowBooks(s)
        \/ Solo(s) /\ BorrowCheck(s)
        \/ Solo(s) /\ BorrowInsert(s)
        \/ Solo(s) /\ BorrowUpdate(s)
        \/ Solo(s) /\ ReturnList(s)
        \/ Solo(s) /\ ReturnInfo(s)
        \/ Solo(s) /\ ReturnRecord(s)
        \/ Solo(s) /\ ReturnUpdate(s)

SpecSeq == Init /\ [][NextSeq]_vars

\* The Dashboard page computed on a database at rest.  The databases are
\* those the pages can build: books with any copy count left, members,
\* loans open or returned.
DashBooks ==
    UNION { [1..n -> [Title : Titles, Author : Authors,
                      AvailableCopies : 0..MaxCopies]] : n \in 0..MaxBooks }

DashLoans ==
    UNION { [1..n -> { [NewBorrowing(1, 1) EXCEPT !.ReturnDate = d] :
                         d \in {NULL, Today} }] : n \in 0..MaxLoans }

InitDash ==
    /\ Books \in DashBooks
    /\ Members \in SeedMembers
    /\ Borrowing \in IF Books = << >> \/ Members = << >> THEN {<< >>} ELSE DashLoans
    /\ pool_free = PoolSize
    /\ ses = [s \in Sessions |-> IdleSession]
    /\ shown = NoReport
    /\ ops = 0
    /\ faults = 0
    /\ credits = [r \in 1..Len(Borrowing) |-> 0]
    /\ pre = NoSnap
    /\ stock = [b \in 1..Len(Books) |-> Books[b].AvailableCopies]
    /\ trip = NoTrip
    /\ dash = DashStart
    /\ dm = DmIdle

NextDash ==
    \/ DashTotalBooks
    \/ DashTotalMembers
    \/ DashBorrowedBooks
    \/ DashAvailableCopies

SpecDash == InitDash /\ [][NextDash]_vars

\* A caller of DatabaseManager.execute_query on the shared pool, of which
\* other users hold any number of connections when it starts.
InitDm ==
    /\ Books \in SeedBooks
    /\ Members \in SeedMembers
    /\ Borrowing = << >>
    /\ pool_free \in 0..PoolSize
    /\ ses = [s \in Sessions |-> IdleSession]
    /\ shown = NoReport
    /\ ops = 0
    /\ faults = 0
    /\ credits = << >>
    /\ pre = NoSnap
    /\ stock = [b \in 1..Len(Books) |-> Books[b].AvailableCopies]
    /\ trip = NoTrip
    /\ dash = DashStart
    /\ dm = DmIdle

NextDm ==
    \/ DmGetConnection
    \/ DmExecute
    \/ DmCommit
    \/ DmExcept
    \/ DmFinally

SpecDm == InitDm /\ [][NextDm]_vars

\* ------------------------------------------------------------------ claims
OpenLoans(member, book) ==
    { r \in 1..Len(Borrowing) :
        /\ Borrowing[r].MemberID = member
        /\ Borrowing[r].BookID = book
        /\ Borrowing[r].ReturnDate = NULL }

AllDone == \A s \in Sessions : ses[s].pc = "done"

\* C1: in every reachable state every book's AvailableCopies is >= 0, under
\* any interleaving of the sessions' Add Book, Borrow and Return runs.
C1_CopiesNeverNegative ==
    \A b \in 1..Len(Books) : Books[b].AvailableCopies >= 0

\* C2: in every reachable state each (member, book) pair has at most one
\* Borrowing record whose ReturnDate is null.
C2_OneOpenLoanPerPair ==
    \A m \in 1..Len(Members), b \in 1..Len(Books) :
        Cardinality(OpenLoans(m, b)) <= 1

\* C3: a Borrow whose write is applied while the book's AvailableCopies is 0
\* is rejected and changes nothing: no Borrowing row is inserted and no
\* AvailableCopies changes.
C3_ZeroCopiesBorrowRejected ==
    [][ \A s \in Sessions :
          ( /\ ses[s].pc \in {"bw_insert", "bw_update"}
            /\ Books[ses[s].book_id].AvailableCopies = 0
            /\ ses'[s] # ses[s] )
          => ( /\ Borrowing' = Borrowing
               /\ Books' = Books
               /\ shown'.msg # "success" ) ]_vars

\* C4: a Return takes effect only on a record in the Borrowed state, so each
\* Borrowing record increments its book's AvailableCopies at most once.
C4_ReturnCreditsOnce ==
    \A r \in 1..Len(credits) : credits[r] <= 1

\* C5: a successful Borrow followed by a successful Return of the record it
\* created restores the book's AvailableCopies to its value before the
\* Borrow and leaves the record with its ReturnDate set.
C5_BorrowReturnRoundTrip ==
    trip.stage = "returned" =>
        /\ Books[trip.book].AvailableCopies = trip.before
        /\ Borrowing[trip.rec].BookID = trip.book
        /\ Borrowing[trip.rec].ReturnDate = Today

C5_Witness ==
    /\ trip.stage = "returned"
    /\ shown.op = "Return"
    /\ shown.msg = "success"

\* C6: a Borrow that reports success has inserted exactly one new Borrowing
\* record for its pair with ReturnDate null and has decreased that book's
\* AvailableCopies by exactly 1; every other row of every table is as it was
\* when the run began.
C6_BorrowEffect ==
    (shown.op = "Borrow" /\ shown.msg = "success") =>
        /\ Borrowing = Append(pre.Borrowing,
                              [MemberID |-> shown.member_id,
                               BookID |-> shown.book_id,
                               BorrowDate |-> Today,
                               DueDate |-> NULL,
                               ReturnDate |-> NULL])
        /\ shown.book_id \in 1..Len(pre.Books)
        /\ Books = [pre.Books EXCEPT
                      ![shown.book_id].AvailableCopies =
                          pre.Books[shown.book_id].AvailableCopies - 1]
        /\ Members = pre.Members

C6_Witness ==
    /\ shown.op = "Borrow"
    /\ shown.msg = "success"
    /\ Len(Books) > 1
    /\ Len(Borrowing) > 1

\* C7: in every reachable state no two Books rows share the same
\* (Title, Author) pair.
C7_UniqueTitleAuthor ==
    \A b1, b2 \in 1..Len(Books) :
        (Books[b1].Title = Books[b2].Title /\ Books[b1].Author = Books[b2].Author)
            => b1 = b2

\* C8: in every reachable state no two members share an e-mail, and an Add
\* Member whose e-mail is already registered is reported as failed and
\* leaves the Members table as it was.
C8_UniqueEmail ==
    /\ \A m1, m2 \in 1..Len(Members) :
           Members[m1].Email = Members[m2].Email => m1 = m2
    /\ (shown.op = "AddMember" /\ shown.res = "integrity_error") =>
           (shown.msg = "failed" /\ Members = pre.Members)

C8_Witness ==
    /\ shown.op = "AddMember"
    /\ shown.res = "integrity_error"
    /\ \E s \in Sessions : ses[s].pc # "done"

\* C9: Borrow and Return report success exactly when both of their writes
\* (the record insert/update and the copy-count update) were applied; a run
\* in which either write failed is reported as failed.
C9_SuccessIffBothWrites ==
    shown.op \in {"Borrow", "Return"} =>
        /\ (shown.msg = "success") <=> (shown.w1 /\ shown.w2)
        /\ (shown.w1 /\ ~shown.w2) => shown.msg = "failed"

C9_Witness ==
    /\ shown.op \in {"Borrow", "Return"}
    /\ shown.msg = "failed"
    /\ shown.w1
    /\ ~shown.w2

\* C10: once every script run has finished, no pooled connection remains
\* checked out: execute_query released the connection on every exit path.
C10_ConnectionsReleased ==
    AllDone => pool_free = PoolSize

\* C12: a database error in the precondition query of Borrow (the
\* duplicate-loan check) or of Add Book (the duplicate-book check) reaches
\* the operation: the run is reported as failed and applies no write.
C12_PreconditionErrorPropagated ==
    (shown.op \in {"Borrow", "AddBook"} /\ shown.check_failed) =>
        (shown.msg = "failed" /\ ~shown.w1)

\* C16: an Add Member with a name and an e-mail that lacks "@" or lacks "."
\* is rejected as an invalid e-mail before any statement is issued: no
\* Members row is inserted and no table changes.
C16_InvalidEmailRejected ==
    ( /\ shown.op = "AddMember"
      /\ shown.msg # "missing"
      /\ (~Contains(shown.email, "@") \/ ~Contains(shown.email, ".")) )
    => ( /\ shown.msg = "invalid_email"
         /\ shown.res = "none"
         /\ ~shown.w1
         /\ Members = pre.Members
         /\ Books = pre.Books
         /\ Borrowing = pre.Borrowing )

C16_Witness ==
    /\ shown.op = "AddMember"
    /\ shown.msg = "invalid_email"
    /\ shown.email = EmNoDot
    /\ Len(Members) > 0

\* C15: a Borrowing record is created open and only ever goes from open to
\* returned: no step deletes a record, changes whose loan it is, or clears
\* a ReturnDate that is set.
C15_RecordLifecycle ==
    [][ /\ Len(Borrowing') >= Len(Borrowing)
        /\ \A r \in 1..Len(Borrowing) :
              /\ Borrowing'[r].MemberID = Borrowing[r].MemberID
              /\ Borrowing'[r].BookID = Borrowing[r].BookID
              /\ Borrowing[r].ReturnDate # NULL => Borrowing'[r].ReturnDate # NULL
        /\ \A r \in (Len(Borrowing) + 1)..Len(Borrowing') :
              Borrowing'[r].ReturnDate = NULL ]_vars

\* A record that two Return runs have worked on, still returned.
C15_Witness ==
    \E r \in 1..Len(Borrowing) :
        Borrowing[r].ReturnDate # NULL /\ credits[r] >= 2

OpenLoansOf(book) ==
    { r \in 1..Len(Borrowing) :
        Borrowing[r].BookID = book /\ Borrowing[r].ReturnDate = NULL }

\* C17: whenever no script run is in progress, every book's AvailableCopies
\* plus the number of its open Borrowing records equals the copy count the
\* book was added with.
C17_CopyConservation ==
    AllDone =>
        \A b \in 1..Len(Books) :
            Books[b].AvailableCopies + Cardinality(OpenLoansOf(b)) = stock[b]

\* C18: every Borrowing record has a null DueDate, and its status is never
\* Overdue: Returned exactly when its ReturnDate is set, Borrowed otherwise.
C18_NeverOverdue ==
    \A r \in 1..Len(Borrowing) :
        /\ Borrowing[r].DueDate = NULL
        /\ Status(Borrowing[r]) # "Overdue"
        /\ Status(Borrowing[r]) = "Returned" <=> Borrowing[r].ReturnDate # NULL
        /\ Status(Borrowing[r]) = "Borrowed" <=> Borrowing[r].ReturnDate = NULL

C18_Witness ==
    \E r1, r2 \in 1..Len(Borrowing) :
        /\ Status(Borrowing[r1]) = "Returned"
        /\ Status(Borrowing[r2]) = "Borrowed"

\* C14: on any database, when each of its four queries is answered,
\* get_dashboard_stats returns total_books = the number of Books rows,
\* total_members = the number of Members rows, borrowed_books = the number
\* of Borrowing rows with null ReturnDate and available_copies = the sum of
\* AvailableCopies over all books; on an empty database all four are 0.
C14_DashboardStats ==
    (dash.pc = "returned" /\ dash.answered) =>
        /\ dash.stats.total_books = Len(Books)
        /\ dash.stats.total_members = Len(Members)
        /\ dash.stats.borrowed_books =
               Cardinality({ r \in 1..Len(Borrowing) : Borrowing[r].ReturnDate = NULL })
        /\ dash.stats.available_copies = SumCopies(Books)
        /\ (Books = << >> /\ Members = << >> /\ Borrowing = << >>) =>
               dash.stats = [total_books |-> 0, total_members |-> 0,
                             borrowed_books |-> 0, available_copies |-> 0]

C14_Witness ==
    /\ dash.pc = "returned"
    /\ dash.answered
    /\ Books = << >>
    /\ Members = << >>

\* C11: when the statement of DatabaseManager.execute_query fails with a
\* database error, the writes of the connection's transaction are rolled
\* back before the connection is released, and the connection is released:
\* the finally clause is reached with nothing pending, and the call ends
\* with the connection back in the pool.
C11_RollbackThenRelease ==
    /\ (dm.pc = "finally" /\ dm.stmt_failed) => dm.pending = 0
    /\ (dm.pc = "done" /\ dm.stmt_failed) => (dm.raised /\ ~dm.held)

\* C13: get_connection makes at most 3 attempts, sleeps 1 second after the
\* first failed attempt and 2 seconds after the second, none after the
\* third, and raises after the third failed attempt.
C13_BoundedBackoff ==
    dm.pc # "idle" =>
        LET failed == IF dm.acq.ok THEN dm.acq.attempts - 1 ELSE dm.acq.attempts
        IN /\ dm.acq.attempts \in 1..3
           /\ ~dm.acq.ok => (dm.acq.attempts = 3 /\ dm.raised)
           /\ dm.acq.slept = SubSeq(<<1, 2>>, 1, IF failed < 2 THEN failed ELSE 2)

\* C19: get_connection leaves no pooled connection checked out other than
\* the one it returns: when it has returned a connection the queue is one
\* short of what it was, and when it has raised the queue is as it was.
C19_NoConnectionDropped ==
    /\ dm.pc = "execute" => (dm.alive /\ pool_free + 1 = dm.free0)
    /\ (dm.pc = "except" /\ ~dm.acq.ok) => pool_free = dm.free0

====
